---------------------------- MODULE Spec2Model ----------------------------
(***************************************************************************)
(* A model of the movie-plot retrieval system: the SmartChunker            *)
(* (src/src/chunker.py), the VectorStore (src/src/vector_store.py), the    *)
(* DataLoader (src/src/data_loader.py) and MovieRAGSystem                  *)
(* (src/src/rag_system.py).                                                *)
(*                                                                         *)
(* Text is a sequence of symbols.  A symbol is a one-character string, or  *)
(* a longer string standing for a run of characters that holds neither     *)
(* whitespace nor a sentence terminator (such as "Movie:").                *)
(*                                                                         *)
(* Four specifications share the variables:                                *)
(*   SpecChunk      SmartChunker.chunk_documents over one bounded document *)
(*   SpecChunkDocs  the same over lists of documents                       *)
(*   Spec           the VectorStore's build_index / load_index / search    *)
(*                  and the two persisted artifacts                        *)
(*   SpecRag        MovieRAGSystem.initialize / query over corpus,         *)
(*                  artifacts and language model                           *)
(***************************************************************************)
EXTENDS Integers, Sequences, FiniteSets, TLC

VARIABLES
    mode,            \* which component drives the run: "chunk", "store", "rag"
    config,          \* Config: CHUNK_SIZE, CHUNK_OVERLAP, SMART_CHUNKING
    documents,       \* chunk_documents: its argument
    docPos,          \* chunk_documents: number of documents already chunked
    docChunks,       \* chunk_documents: doc_chunks of the last document
    outChunks,       \* chunk_documents: chunks accumulated so far
    index,           \* VectorStore.index: None, or the vectors added, in order
    chunks,          \* VectorStore.chunks
    chunk_metadata,  \* VectorStore.chunk_metadata
    diskIndex,       \* the file VECTOR_DB_PATH/index.faiss
    diskMeta,        \* the file VECTOR_DB_PATH/metadata.pkl
    ret,             \* what the last call returned or raised
    succeeded,       \* a build_index or load_index of this instance has succeeded
    builder,         \* the instance whose build_index wrote the artifacts now on
                     \* disk, while the program still holds it untouched
    corpus,          \* the file Config.DATA_PATH
    initialized,     \* MovieRAGSystem.initialized
    llm              \* MovieRAGSystem.llm is not None

chunkVars == <<documents, docPos, docChunks, outChunks>>

storeVars == <<index, chunks, chunk_metadata, succeeded>>

diskVars == <<diskIndex, diskMeta>>

ragVars == <<corpus, initialized, llm>>

vars == <<mode, config, chunkVars, storeVars, diskVars, ret, builder, ragVars>>

-----------------------------------------------------------------------------
(* Bounds *)

\* longest document content, in symbols
MaxLen == 6
\* largest CHUNK_SIZE of a drawn configuration
MaxChunkSize == 2
\* most documents handed to chunk_documents
MaxDocs == 2
\* most chunks handed to build_index
MaxChunks == 4
\* largest top_k handed to search
MaxTopK == 2

-----------------------------------------------------------------------------
(* Sequence helpers *)

Min(a, b) == IF a <= b THEN a ELSE b

\* Python's s[i:j] with 0 <= i, on 0-based positions
Slice(s, i, j) == SubSeq(s, i + 1, Min(j, Len(s)))

\* Python's s[-n:]
LastN(s, n) == SubSeq(s, Len(s) - Min(n, Len(s)) + 1, Len(s))

RECURSIVE SeqsUpTo(_, _)
SeqsUpTo(S, n) ==
    IF n = 0 THEN {<<>>}
    ELSE LET shorter == SeqsUpTo(S, n - 1)
         IN shorter \cup {Append(s, x) : s \in {t \in shorter : Len(t) = n - 1}, x \in S}

-----------------------------------------------------------------------------
(* Text: str.split, str.strip, str.join, re.split *)

IsSpace(c) == c = " "

IsTerminator(c) == c \in {".", "!", "?"}

\* str.split(): the maximal runs of non-whitespace symbols
RECURSIVE SplitFrom(_, _, _)
SplitFrom(s, cur, acc) ==
    IF s = <<>> THEN (IF cur = <<>> THEN acc ELSE Append(acc, cur))
    ELSE IF IsSpace(Head(s))
         THEN SplitFrom(Tail(s), <<>>, IF cur = <<>> THEN acc ELSE Append(acc, cur))
         ELSE SplitFrom(Tail(s), Append(cur, Head(s)), acc)

Split(s) == SplitFrom(s, <<>>, <<>>)

\* ' '.join(parts)
RECURSIVE Join(_)
Join(parts) ==
    IF parts = <<>> THEN <<>>
    ELSE IF Len(parts) = 1 THEN Head(parts)
    ELSE Head(parts) \o <<" ">> \o Join(Tail(parts))

\* str.strip()
RECURSIVE LStrip(_)
LStrip(s) == IF s # <<>> /\ IsSpace(Head(s)) THEN LStrip(Tail(s)) ELSE s

RECURSIVE RStrip(_)
RStrip(s) ==
    IF s # <<>> /\ IsSpace(s[Len(s)]) THEN RStrip(SubSeq(s, 1, Len(s) - 1)) ELSE s

Strip(s) == RStrip(LStrip(s))

\* re.split(r'[.!?]+', s): the pieces between maximal runs of terminators,
\* empty pieces at either end included
RECURSIVE ReSplitFrom(_, _, _, _)
ReSplitFrom(s, cur, acc, inRun) ==
    IF s = <<>> THEN Append(acc, cur)
    ELSE IF IsTerminator(Head(s))
         THEN (IF inRun THEN ReSplitFrom(Tail(s), cur, acc, TRUE)
               ELSE ReSplitFrom(Tail(s), <<>>, Append(acc, cur), TRUE))
         ELSE ReSplitFrom(Tail(s), Append(cur, Head(s)), acc, FALSE)

ReSplit(s) == ReSplitFrom(s, <<>>, <<>>, FALSE)

\* [s.strip() for s in sentences if s.strip()]
RECURSIVE StripNonEmpty(_)
StripNonEmpty(parts) ==
    IF parts = <<>> THEN <<>>
    ELSE LET t == Strip(Head(parts))
         IN (IF t = <<>> THEN <<>> ELSE <<t>>) \o StripNonEmpty(Tail(parts))

Sentences(content) == StripNonEmpty(ReSplit(content))

-----------------------------------------------------------------------------
(* SmartChunker *)

\* f"{title}_{k}": k is written in decimal and holds no underscore, so the
\* string determines the pair and the pair stands for the string
ChunkId(title, k) == <<title, k>>

MkChunk(content, document, k) ==
    [content |-> content,
     metadata |-> document.metadata,
     chunk_id |-> ChunkId(document.metadata.title, k)]

\* a stride that forgets the overlap
StrideWithoutOverlap(cfg) == cfg.CHUNK_SIZE

\* the step of range(0, len(words), CHUNK_SIZE - CHUNK_OVERLAP)
Stride(cfg) == cfg.CHUNK_SIZE - cfg.CHUNK_OVERLAP

\* the index _fixed_size_chunking writes into the id of the window at i
FixedIndex(i, cfg) == i \div cfg.CHUNK_SIZE

RECURSIVE FixedFrom(_, _, _, _, _)
FixedFrom(words, i, document, cfg, acc) ==
    IF i >= Len(words) THEN acc
    ELSE LET chunk_words == Slice(words, i, i + cfg.CHUNK_SIZE)
             next == Append(acc, MkChunk(Join(chunk_words), document, FixedIndex(i, cfg)))
         IN IF i + cfg.CHUNK_SIZE >= Len(words) THEN next
            ELSE FixedFrom(words, i + Stride(cfg), document, cfg, next)

FixedSizeChunking(content, document, cfg) ==
    FixedFrom(Split(content), 0, document, cfg, <<>>)

\* a carry-over that keeps nothing
OverlapSentencesNone(current_chunk) == <<>>

\* current_chunk[-2:] if len(current_chunk) >= 2 else current_chunk[-1:]
OverlapSentences(current_chunk) ==
    IF Len(current_chunk) >= 2 THEN LastN(current_chunk, 2) ELSE LastN(current_chunk, 1)

\* sum(len(s.split()) for s in overlap_sentences)
RECURSIVE WordCount(_)
WordCount(sents) ==
    IF sents = <<>> THEN 0 ELSE Len(Split(Head(sents))) + WordCount(Tail(sents))

RECURSIVE SemanticFrom(_, _, _, _, _, _)
SemanticFrom(sentences, document, cfg, emitted, current_chunk, current_length) ==
    IF sentences = <<>>
    THEN (IF current_chunk # <<>>
          THEN Append(emitted, MkChunk(Join(current_chunk), document, Len(emitted)))
          ELSE emitted)
    ELSE LET sentence == Head(sentences)
             sentence_length == Len(Split(sentence))
             close == current_length + sentence_length > cfg.CHUNK_SIZE
                      /\ current_length > 0
             emitted2 == IF close
                        THEN Append(emitted, MkChunk(Join(current_chunk), document, Len(emitted)))
                        ELSE emitted
             carried == IF close THEN OverlapSentences(current_chunk) ELSE current_chunk
             length2 == IF close THEN WordCount(carried) ELSE current_length
         IN SemanticFrom(Tail(sentences), document, cfg, emitted2,
                         Append(carried, sentence), length2 + sentence_length)

SemanticChunking(content, document, cfg) ==
    SemanticFrom(Sentences(content), document, cfg, <<>>, <<>>, 0)

ChunkDocument(document, cfg) ==
    IF Len(Split(document.content)) <= cfg.CHUNK_SIZE
    THEN <<MkChunk(document.content, document, 0)>>
    ELSE IF cfg.SMART_CHUNKING
         THEN SemanticChunking(document.content, document, cfg)
         ELSE FixedSizeChunking(document.content, document, cfg)

\* chunk_documents as one call: the chunks of every document, in order
RECURSIVE ChunkDocuments(_, _)
ChunkDocuments(docs, cfg) ==
    IF docs = <<>> THEN <<>>
    ELSE ChunkDocument(Head(docs), cfg) \o ChunkDocuments(Tail(docs), cfg)

-----------------------------------------------------------------------------
(* The embedding model and the flat inner-product index *)

\* Vectors have two integer components.  A normalised vector has length
\* UnitLength, so a score of 1.0 is UnitLength * UnitLength.
UnitLength == 5

\* Config.SIMILARITY_THRESHOLD = 0.3, in tenths
SIMILARITY_THRESHOLD_TENTHS == 3

\* Config.TOP_K
TOP_K == 3

RECURSIVE Count(_, _)
Count(sym, text) ==
    IF text = <<>> THEN 0
    ELSE (IF Head(text) = sym THEN 1 ELSE 0) + Count(sym, Tail(text))

\* SentenceTransformer.encode on one text: a fixed function from text to a
\* vector that is not normalised.  The model is a black box to the program;
\* this one tells texts apart by the letters they hold.
Encode(text) ==
    LET a == Count("a", text)
        b == Count("b", text)
    IN IF a > 0 /\ b = 0 THEN <<10, 0>>
       ELSE IF a = 0 /\ b > 0 THEN <<0, 10>>
       ELSE IF a > 0 /\ a >= b THEN <<8, 6>>
       ELSE IF b > 0 THEN <<3, 4>>
       ELSE <<-10, 0>>

\* the Euclidean length of a vector whose length is an integer
Norm(v) == CHOOSE n \in 0..(v[1] * v[1] + v[2] * v[2]) : n * n = v[1] * v[1] + v[2] * v[2]

\* faiss.normalize_L2 on one row: scaled to unit length, a zero row left alone
NormalizeL2(v) ==
    IF Norm(v) = 0 THEN v
    ELSE <<(UnitLength * v[1]) \div Norm(v), (UnitLength * v[2]) \div Norm(v)>>

\* the inner product IndexFlatIP scores with
Dot(u, v) == u[1] * v[1] + u[2] * v[2]

\* the score faiss pads a result with when it has fewer than k vectors
PadScore == -(UnitLength * UnitLength) - 1

\* score >= self.config.SIMILARITY_THRESHOLD
MeetsThreshold(score) == score * 10 >= SIMILARITY_THRESHOLD_TENTHS * UnitLength * UnitLength

\* the position (1-based) faiss returns next among those left: the highest
\* score, the lowest position among equals
Best(vectors, qv, left) ==
    CHOOSE i \in left :
        \A j \in left :
            \/ Dot(vectors[i], qv) > Dot(vectors[j], qv)
            \/ Dot(vectors[i], qv) = Dot(vectors[j], qv) /\ i <= j

RECURSIVE Ranked(_, _, _, _)
Ranked(vectors, qv, left, k) ==
    IF k = 0 THEN <<>>
    ELSE IF left = {} THEN <<[score |-> PadScore, idx |-> -1]>> \o Ranked(vectors, qv, left, k - 1)
    ELSE LET i == Best(vectors, qv, left)
         IN <<[score |-> Dot(vectors[i], qv), idx |-> i - 1]>>
                \o Ranked(vectors, qv, left \ {i}, k - 1)

\* index.search(query, k): k (score, idx) pairs, best first, idx 0-based,
\* padded with (PadScore, -1) beyond the vectors the index holds
IndexSearch(vectors, qv, k) == Ranked(vectors, qv, 1..Len(vectors), k)

-----------------------------------------------------------------------------
(* VectorStore *)

\* self.index = None
NoIndex == [kind |-> "None"]

\* faiss.IndexFlatIP holding the vectors xb, in the order they were added
FlatIndex(vectors) == [kind |-> "IndexFlatIP", xb |-> vectors]

\* a file that does not exist, and one that exists but cannot be read back
Missing == [state |-> "missing"]

Corrupt == [state |-> "corrupt"]

\* no other instance is held
NoStore == [kind |-> "None"]

StoreOf(idx, cs, md) ==
    [kind |-> "VectorStore", index |-> idx, chunks |-> cs, chunk_metadata |-> md]

\* the fields __init__ sets
StoreConstructed ==
    /\ index = NoIndex
    /\ chunks = <<>>
    /\ chunk_metadata = <<>>
    /\ succeeded = FALSE
    /\ ret = [op |-> "new"]
    /\ builder = NoStore

\* no MovieRAGSystem: no corpus file, nothing initialized, no language model
RagIdle ==
    /\ corpus = Missing
    /\ initialized = FALSE
    /\ llm = FALSE

\* [chunk['metadata'] for chunk in chunks]
MetadataOf(cs) == [i \in 1..Len(cs) |-> cs[i].metadata]

\* the index build_index fills: one normalised embedding per chunk, in order
EmbedAll(cs) == FlatIndex([i \in 1..Len(cs) |-> NormalizeL2(Encode(cs[i].content))])

\* faiss.write_index of a flat index: dimension, count and the vectors
WriteIndex(idx) == [state |-> "ok", ntotal |-> Len(idx.xb), xb |-> idx.xb]

\* a read_index that stops one vector short
ReadIndexShort(file) == FlatIndex(SubSeq(file.xb, 1, file.ntotal - 1))

\* faiss.read_index: an index of the first ntotal vectors of the file
ReadIndex(file) == FlatIndex(SubSeq(file.xb, 1, file.ntotal))

\* pickle.dump({'chunks': ..., 'metadata': ...})
DumpMetadata(cs, md) == [state |-> "ok", chunks |-> cs, metadata |-> md]

\* the faults a build_index call can meet outside the program: the embedding
\* call raising, the index file failing part-way, the metadata file refusing
\* to open, the pickle failing part-way
Faults == {"none", "encode", "write_index", "open_metadata", "dump"}

\* build_index(cs): the fields are assigned before the embeddings exist; an
\* empty chunk list fails at embeddings.shape[1]; _save_index writes the
\* index file, then the metadata file
\* the store and its two files: what build_index and load_index read and
\* write
StoreState == [index |-> index, chunks |-> chunks, chunk_metadata |-> chunk_metadata,
               diskIndex |-> diskIndex, diskMeta |-> diskMeta]

\* the store and the files after build_index(cs), and whether it raised
AfterBuild(st, cs, fault) ==
    LET assigned == [st EXCEPT !.chunks = cs, !.chunk_metadata = MetadataOf(cs)]
    IN  IF cs = <<>> \/ fault = "encode"
        THEN [st |-> assigned, raised |-> TRUE]
        ELSE LET idx == EmbedAll(cs)
             IN [st |-> [assigned EXCEPT
                           !.index = idx,
                           !.diskIndex = IF fault = "write_index" THEN Corrupt
                                         ELSE WriteIndex(idx),
                           !.diskMeta = CASE fault = "none" ->
                                                 DumpMetadata(cs, MetadataOf(cs))
                                          [] fault = "dump" -> Corrupt
                                          [] OTHER -> st.diskMeta],
                 raised |-> fault # "none"]

BuildIndex(cs, fault) ==
    \E b \in {AfterBuild(StoreState, cs, fault)} :
        /\ index' = b.st.index
        /\ chunks' = b.st.chunks
        /\ chunk_metadata' = b.st.chunk_metadata
        /\ diskIndex' = b.st.diskIndex
        /\ diskMeta' = b.st.diskMeta
        /\ succeeded' = (succeeded \/ ~b.raised)
        /\ ret' = [op |-> "build_index", raised |-> b.raised]
        /\ builder' = NoStore

\* load_index that forgets the metadata list
LoadedMetadataForgotten(file) == <<>>

\* data['metadata']
LoadedMetadata(file) == file.metadata

\* load_index(): both files must exist; every exception is caught
AfterLoad(st) ==
    IF st.diskIndex = Missing \/ st.diskMeta = Missing \/ st.diskIndex = Corrupt
    THEN [st |-> st, value |-> FALSE]
    ELSE LET read == [st EXCEPT !.index = ReadIndex(st.diskIndex)]
         IN  IF st.diskMeta = Corrupt
             THEN [st |-> read, value |-> FALSE]
             ELSE [st |-> [read EXCEPT !.chunks = st.diskMeta.chunks,
                                       !.chunk_metadata = LoadedMetadata(st.diskMeta)],
                   value |-> TRUE]

LoadIndex ==
    \E l \in {AfterLoad(StoreState)} :
        /\ index' = l.st.index
        /\ chunks' = l.st.chunks
        /\ chunk_metadata' = l.st.chunk_metadata
        /\ succeeded' = (succeeded \/ l.value)
        /\ ret' = [op |-> "load_index", raised |-> FALSE, value |-> l.value]
        /\ UNCHANGED <<diskVars, builder>>

\* seq[i] for a Python index i, negative ones counting from the end
PyItem(seq, i) == IF i >= 0 THEN seq[i + 1] ELSE seq[Len(seq) + i + 1]

\* the first loop of search: keep a candidate that is in range and meets the
\* threshold, stop once top_k are kept
RECURSIVE KeepAbove(_, _, _, _)
KeepAbove(cands, cs, top_k, results) ==
    IF cands = <<>> THEN results
    ELSE LET c == Head(cands)
             kept == IF c.idx < Len(cs) /\ MeetsThreshold(c.score)
                     THEN Append(results, [chunk |-> PyItem(cs, c.idx), score |-> c.score])
                     ELSE results
         IN IF Len(kept) >= top_k THEN kept
            ELSE KeepAbove(Tail(cands), cs, top_k, kept)

\* the second loop of search: the first top_k candidates that are in range
RECURSIVE KeepFirst(_, _, _, _, _)
KeepFirst(cands, i, cs, top_k, results) ==
    IF i >= Len(cands) THEN results
    ELSE LET c == cands[i + 1]
         IN KeepFirst(cands, i + 1, cs, top_k,
                      IF c.idx < Len(cs) /\ i < top_k
                      THEN Append(results, [chunk |-> PyItem(cs, c.idx), score |-> c.score])
                      ELSE results)

\* min(top_k * 3, len(self.chunks))
SearchK(top_k, cs) == Min(top_k * 3, Len(cs))

\* search(query, top_k) on the fields (idx, cs): the outcomes it can have.
\* Asked for 0 neighbours, the index either refuses (an assertion of the
\* binding, which search lets through) or answers with none, by its version.
SearchOutcomes(idx, cs, query, top_k) ==
    LET k == top_k
        search_k == SearchK(k, cs)
        qv == NormalizeL2(Encode(query))
        cands == IndexSearch(idx.xb, qv, search_k)
        above == KeepAbove(cands, cs, k, <<>>)
    IN IF idx = NoIndex THEN {[raised |-> FALSE, value |-> <<>>]}
       ELSE IF search_k = 0
            THEN {[raised |-> TRUE, value |-> <<>>], [raised |-> FALSE, value |-> <<>>]}
       ELSE IF above = <<>> /\ Len(cands) > 0
            THEN {[raised |-> FALSE, value |-> KeepFirst(cands, 0, cs, k, <<>>)]}
       ELSE {[raised |-> FALSE, value |-> above]}

-----------------------------------------------------------------------------
(* SpecChunk and SpecChunkDocs: the chunker over bounded documents and     *)
(* configurations.  SpecChunk hands chunk_documents one document,          *)
(* SpecChunkDocs up to MaxDocs documents.                                  *)

Alphabet == {"a", " ", "."}

Titles == {"T1", "T2"}

\* the contents of at most n symbols, for n in 0..MaxLen
ContentsUpTo == [n \in 0..MaxLen |-> SeqsUpTo(Alphabet, n)]

MkDocument(title, content) ==
    [title |-> title, content |-> content,
     metadata |-> [title |-> title, year |-> "Unknown", genres |-> <<>>]]

\* configurations with 0 <= CHUNK_OVERLAP < CHUNK_SIZE, both strategies
ChunkConfigs ==
    {c \in [CHUNK_SIZE : 1..MaxChunkSize, CHUNK_OVERLAP : 0..(MaxChunkSize - 1),
            SMART_CHUNKING : BOOLEAN] : c.CHUNK_OVERLAP < c.CHUNK_SIZE}

\* document lists of at most n documents whose contents hold at most budget
\* symbols in all
RECURSIVE ListsWithin(_, _)
ListsWithin(n, budget) ==
    IF n = 0 THEN {<<>>}
    ELSE {<<>>} \cup
         UNION {{<<MkDocument(t, c)>> \o rest :
                     t \in Titles, rest \in ListsWithin(n - 1, budget - Len(c))} :
                 c \in ContentsUpTo[budget]}

\* the non-empty document lists of at most n documents
DocumentLists(n) == ListsWithin(n, MaxLen) \ {<<>>}

InitChunkWith(lists) ==
    /\ mode = "chunk"
    /\ config \in ChunkConfigs
    /\ documents \in lists
    /\ docPos = 0
    /\ docChunks = <<>>
    /\ outChunks = <<>>
    /\ StoreConstructed
    /\ diskIndex = Missing
    /\ diskMeta = Missing
    /\ RagIdle

InitChunk == InitChunkWith(DocumentLists(1))

InitChunkDocs == InitChunkWith(DocumentLists(MaxDocs))

\* one turn of "for doc in documents": doc_chunks = _chunk_document(doc);
\* chunks.extend(doc_chunks)
ChunkNextDocument ==
    /\ mode = "chunk"
    /\ docPos < Len(documents)
    /\ docChunks' = ChunkDocument(documents[docPos + 1], config)
    /\ outChunks' = outChunks \o docChunks'
    /\ docPos' = docPos + 1
    /\ UNCHANGED <<mode, config, documents, storeVars, diskVars, ret, builder, ragVars>>

NextChunk == ChunkNextDocument

SpecChunk == InitChunk /\ [][NextChunk]_vars

SpecChunkDocs == InitChunkDocs /\ [][NextChunk]_vars

-----------------------------------------------------------------------------
(* Spec: one VectorStore and its artifacts, driven through build_index,    *)
(* load_index and search; a second instance is constructed on the same     *)
(* VECTOR_DB_PATH by NewVectorStore.                                       *)

\* the contents of the chunks handed to build_index, repeating beyond the
\* last one
MasterContents == <<<<"a", " ", "b">>, <<"b">>, <<"a">>, <<"a", " ", "a">>, <<"b", " ", "a">>>>

\* the i-th master chunk: chunk (i - 1) \div 2 of document T1 or T2
MasterChunk(i) ==
    LET c == MasterContents[((i - 1) % Len(MasterContents)) + 1]
    IN MkChunk(c, MkDocument(IF i % 2 = 1 THEN "T1" ELSE "T2", c), (i - 1) \div 2)

\* the chunk lists handed to build_index: the first n master chunks, for
\* n in 0..MaxChunks, the empty list among them
ChunkLists == {[i \in 1..n |-> MasterChunk(i)] : n \in 0..MaxChunks}

Queries == {<<"a">>, <<"b">>, <<"?">>}

\* the top_k search runs with: one given by the caller, or Config.TOP_K
\* when the caller gives none
TopKs == (1..MaxTopK) \cup {TOP_K}

DefaultConfig == [CHUNK_SIZE |-> 300, CHUNK_OVERLAP |-> 50, SMART_CHUNKING |-> TRUE]

ChunkerIdle ==
    /\ documents = <<>>
    /\ docPos = 0
    /\ docChunks = <<>>
    /\ outChunks = <<>>

Init ==
    /\ mode = "store"
    /\ config = DefaultConfig
    /\ ChunkerIdle
    /\ StoreConstructed
    /\ diskIndex = Missing
    /\ diskMeta = Missing
    /\ RagIdle

StoreBuildIndex ==
    /\ mode = "store"
    /\ \E cs \in ChunkLists, fault \in Faults : BuildIndex(cs, fault)
    /\ UNCHANGED <<mode, config, chunkVars, ragVars>>

StoreLoadIndex ==
    /\ mode = "store"
    /\ LoadIndex
    /\ UNCHANGED <<mode, config, chunkVars, ragVars>>

StoreSearch ==
    /\ mode = "store"
    /\ \E q \in Queries, k \in TopKs :
          \E out \in SearchOutcomes(index, chunks, q, k) :
              ret' = [op |-> "search", query |-> q, top_k |-> k,
                      raised |-> out.raised, value |-> out.value]
    /\ UNCHANGED <<mode, config, chunkVars, storeVars, diskVars, builder, ragVars>>

\* VectorStore(config) once more: a fresh instance takes the place of the
\* current one.  The program keeps the old one only if its last call was a
\* build_index that returned.
NewVectorStore ==
    /\ mode = "store"
    /\ ret.op # "new"
    /\ index' = NoIndex
    /\ chunks' = <<>>
    /\ chunk_metadata' = <<>>
    /\ succeeded' = FALSE
    /\ ret' = [op |-> "new"]
    /\ builder' = IF ret.op = "build_index" /\ ~ret.raised
                  THEN StoreOf(index, chunks, chunk_metadata)
                  ELSE NoStore
    /\ UNCHANGED <<mode, config, chunkVars, diskVars, ragVars>>

Next == StoreBuildIndex \/ StoreLoadIndex \/ StoreSearch \/ NewVectorStore

Spec == Init /\ [][Next]_vars

-----------------------------------------------------------------------------
(* SpecRag: one MovieRAGSystem over the corpus file, the persisted         *)
(* artifacts and the language model; RagRestart is the program run again.  *)

\* most movies in the corpus file
MaxMovies == 2

MAX_DOCUMENTS == 400

\* a corpus file json.load cannot read
Malformed == [state |-> "malformed"]

\* a corpus file holding a JSON array of movie objects
CorpusOf(movies) == [state |-> "ok", movies |-> movies]

\* movie.get(key, default)
Get(movie, key, default) == IF key \in DOMAIN movie THEN movie[key] ELSE default

\* ', '.join(genres)
RECURSIVE JoinComma(_)
JoinComma(genres) ==
    IF Len(genres) <= 1 THEN genres
    ELSE <<Head(genres), ",", " ">> \o JoinComma(Tail(genres))

\* the content load_and_preprocess composes for a movie with a plot
Content(movie) ==
    LET year == Get(movie, "year", "Unknown")
        genres == Get(movie, "genres", <<>>)
        title == Get(movie, "title", "Unknown")
    IN  <<"Movie:", " ", title, ".", " ", "Year:", " ", year, ".", " ">>
        \o (IF genres # <<>>
            THEN <<"Genres:", " ">> \o JoinComma(genres) \o <<".", " ">>
            ELSE <<>>)
        \o <<"Plot:", " ">> \o movie.extract

\* the document load_and_preprocess appends for a movie with a plot
ProcessedMovie(movie) ==
    LET year == Get(movie, "year", "Unknown")
        genres == Get(movie, "genres", <<>>)
        title == Get(movie, "title", "Unknown")
    IN  [title |-> title, year |-> year, content |-> Content(movie), genres |-> genres,
         metadata |-> [title |-> title, year |-> year, genres |-> genres]]

\* the loop of load_and_preprocess: movies without a plot are skipped
RECURSIVE ProcessedMovies(_)
ProcessedMovies(movies) ==
    IF movies = <<>> THEN <<>>
    ELSE LET movie == Head(movies)
         IN (IF "extract" \in DOMAIN movie /\ movie.extract # <<>>
             THEN <<ProcessedMovie(movie)>>
             ELSE <<>>) \o ProcessedMovies(Tail(movies))

\* DataLoader.load_and_preprocess: only FileNotFoundError is caught
LoadAndPreprocess(file) ==
    IF file.state = "missing" THEN [raised |-> FALSE, value |-> <<>>]
    ELSE IF file.state = "malformed" THEN [raised |-> TRUE, value |-> <<>>]
    ELSE [raised |-> FALSE,
          value |-> ProcessedMovies(Slice(file.movies, 0, MAX_DOCUMENTS))]

\* MovieRAGSystem.initialize on the store and files st, with self.initialized
\* = init: the store and files after it, self.initialized, what it returned
\* or that it raised, and the calls it made on its components
InitializeOutcome(st, init, file, cfg, fault) ==
    LET l == AfterLoad(st)
        d == LoadAndPreprocess(file)
        cs == ChunkDocuments(d.value, cfg)
        b == AfterBuild(l.st, cs, fault)
    IN  IF l.value
        THEN [st |-> l.st, initialized |-> TRUE, raised |-> FALSE, value |-> TRUE,
              calls |-> <<"load_index">>]
        ELSE IF d.raised
        THEN [st |-> l.st, initialized |-> init, raised |-> TRUE, value |-> FALSE,
              calls |-> <<"load_index", "load_and_preprocess">>]
        ELSE IF d.value = <<>>
        THEN [st |-> l.st, initialized |-> init, raised |-> FALSE, value |-> FALSE,
              calls |-> <<"load_index", "load_and_preprocess">>]
        ELSE IF b.raised
        THEN [st |-> b.st, initialized |-> init, raised |-> TRUE, value |-> FALSE,
              calls |-> <<"load_index", "load_and_preprocess", "chunk_documents",
                          "build_index">>]
        ELSE [st |-> b.st, initialized |-> TRUE, raised |-> FALSE, value |-> TRUE,
              calls |-> <<"load_index", "load_and_preprocess", "chunk_documents",
                          "build_index">>]

\* the top_k query passes to search
QUERY_TOP_K == 5

\* the titles a fallback answer names: movie_titles[:3]
FALLBACK_TITLES == 3

\* the chunks the reasoning looks at: retrieved_chunks[:3]
REASONING_CHUNKS == 3

\* an answer: who wrote it, the fixed sentence it is built on, the titles put
\* into the sentence, and the text a language model wrote
Answer(by, template, titles, text) ==
    [by |-> by, template |-> template, titles |-> titles, text |-> text]

\* a reasoning: the fixed sentence it is built on, and the question, the
\* number of chunks and the titles put into it
Reasoning(template, question, n, top_movies) ==
    [template |-> template, question |-> question, n |-> n, top_movies |-> top_movies]

Response(answer, contexts, reasoning) ==
    [answer |-> answer, contexts |-> contexts, reasoning |-> reasoning]

\* what query returns when initialize returns False
InitFailureResponse ==
    Response(Answer("system", "System initialization failed. Please check your data file.",
                    <<>>, <<>>),
             <<>>,
             Reasoning("Initialization error", <<>>, 0, <<>>))

\* what query returns when search returns nothing
NotFoundResponse ==
    Response(Answer("system",
                    "I couldn't find relevant information about this topic in the movie plots database.",
                    <<>>, <<>>),
             <<>>,
             Reasoning("No relevant movie plot information was found for the query.",
                       <<>>, 0, <<>>))

\* no response: the call raised
NoResponse == Response(Answer("nobody", "", <<>>, <<>>), <<>>, Reasoning("", <<>>, 0, <<>>))

\* [chunk['content'] for chunk, score in retrieved_chunks]
ContextsOf(retrieved) == [i \in 1..Len(retrieved) |-> retrieved[i].chunk.content]

\* the keyword groups of _generate_fallback_answer, in the order tried, each
\* with the sentence it selects
FallbackTemplates ==
    << [terms |-> {"artificial intelligence", "ai", "robot"},
        template |-> "Based on the movie plots, these films feature artificial intelligence or robots: {titles}."],
       [terms |-> {"dream", "dreaming", "virtual reality"},
        template |-> "These movies involve dreams or virtual reality: {titles}."],
       [terms |-> {"prison", "escape", "jail"},
        template |-> "These movies feature prison settings or escapes: {titles}."],
       [terms |-> {"sci-fi", "science fiction", "future"},
        template |-> "Science fiction movies include: {titles}."],
       [terms |-> {"superhero", "superpower", "marvel", "dc"},
        template |-> "Superhero movies include: {titles}."],
       [terms |-> {"romantic", "romance", "comedy"},
        template |-> "Romantic comedies include: {titles}."] >>

DefaultTemplate ==
    "Based on movie plots including {titles}. The plots discuss various themes related to your question."

\* any(term in question_lower for term in terms), a term being one symbol of
\* the question
Mentions(question, terms) == \E i \in 1..Len(question) : question[i] \in terms

\* the if / elif chain of _generate_fallback_answer from group i on
RECURSIVE TemplateFrom(_, _)
TemplateFrom(question, i) ==
    IF i > Len(FallbackTemplates) THEN DefaultTemplate
    ELSE IF Mentions(question, FallbackTemplates[i].terms)
         THEN FallbackTemplates[i].template
         ELSE TemplateFrom(question, i + 1)

\* the orders list(set(titles)) can come out in
Orders(S) ==
    {o \in [1..Cardinality(S) -> S] : \A i, j \in 1..Cardinality(S) : o[i] = o[j] => i = j}

\* _generate_fallback_answer: the answers it can give
FallbackAnswers(question, retrieved) ==
    LET movie_titles == {retrieved[i].chunk.metadata.title : i \in 1..Len(retrieved)}
    IN  {Answer("fallback", TemplateFrom(question, 1), Slice(o, 0, FALLBACK_TITLES), <<>>) :
             o \in Orders(movie_titles)}

\* the loop of _generate_reasoning: the titles of the chunks, first
\* occurrences only
RECURSIVE TopMovies(_, _)
TopMovies(retrieved, top_movies) ==
    IF retrieved = <<>> THEN top_movies
    ELSE LET title == Head(retrieved).chunk.metadata.title
         IN TopMovies(Tail(retrieved),
                      IF \E i \in 1..Len(top_movies) : top_movies[i] = title
                      THEN top_movies
                      ELSE Append(top_movies, title))

GenerateReasoning(question, retrieved) ==
    LET top_movies == TopMovies(Slice(retrieved, 0, REASONING_CHUNKS), <<>>)
    IN  IF top_movies = <<>>
        THEN Reasoning("No relevant movie plot information was found for the query.",
                       <<>>, 0, <<>>)
        ELSE Reasoning("The question was about '{question}'. I searched through movie plots and found relevant information from {n} chunks. The most relevant movies were: {top_movies}. I used these plot details to form a comprehensive answer.",
                       question, Len(retrieved), top_movies)

\* what the language model does with a prompt: raise, in generate_content or
\* in response.text, or answer with a text
LlmReplies == {[raised |-> TRUE, text |-> <<>>],
               [raised |-> FALSE, text |-> <<" ", "x", " ", "y", " ">>]}

\* how the model call of query went: not made, returned, raised
LlmCall(configured, reply) ==
    IF ~configured THEN "none" ELSE IF reply.raised THEN "raised" ELSE "returned"

\* an answer step that lets the model's exception through
GenerateAnswerUncaught(configured, reply, fallback) ==
    [raised |-> configured /\ reply.raised,
     answer |-> IF configured /\ ~reply.raised
                THEN Answer("llm", "", <<>>, Strip(reply.text))
                ELSE fallback]

\* the answer step of query: the model's text, stripped, when a model is
\* configured and the call returns; the fallback answer otherwise
GenerateAnswer(configured, reply, fallback) ==
    [raised |-> FALSE,
     answer |-> IF configured /\ ~reply.raised
                THEN Answer("llm", "", <<>>, Strip(reply.text))
                ELSE fallback]

\* what a query leaves behind: the store and files, self.initialized, what it
\* returned or that it raised, the calls it made on its components, what
\* search gave it and how the model call went
QueryOutcome(i, raised, value, calls, retrieved, llm_call) ==
    [st |-> i.st, initialized |-> i.initialized, raised |-> raised, value |-> value,
     calls |-> i.calls \o calls, retrieved |-> retrieved, llm_call |-> llm_call]

\* query from the search on, after an initialize that left i behind
AfterSearch(i, out, configured, question, reply) ==
    LET retrieved == out.value
        called == IF configured THEN <<"search", "generate_content">> ELSE <<"search">>
    IN  IF out.raised
        THEN {QueryOutcome(i, TRUE, NoResponse, <<"search">>, <<>>, "none")}
        ELSE IF retrieved = <<>>
        THEN {QueryOutcome(i, FALSE, NotFoundResponse, <<"search">>, <<>>, "none")}
        ELSE {LET g == GenerateAnswer(configured, reply, fallback)
              IN  IF g.raised
                  THEN QueryOutcome(i, TRUE, NoResponse, called, retrieved,
                                    LlmCall(configured, reply))
                  ELSE QueryOutcome(i, FALSE,
                                    Response(g.answer, ContextsOf(retrieved),
                                             GenerateReasoning(question, retrieved)),
                                    called, retrieved, LlmCall(configured, reply)) :
                 fallback \in FallbackAnswers(question, retrieved)}

\* a query that initializes whether or not the system is initialized
NeedsInitializeAlways(init) == TRUE

\* "if not self.initialized" at the head of query
NeedsInitialize(init) == ~init

\* MovieRAGSystem.query: the outcomes it can have
QueryOutcomes(st, init, file, cfg, configured, question, fault, reply) ==
    LET i == IF NeedsInitialize(init)
             THEN InitializeOutcome(st, init, file, cfg, fault)
             ELSE [st |-> st, initialized |-> init, raised |-> FALSE, value |-> TRUE,
                   calls |-> <<>>]
    IN  IF i.raised
        THEN {QueryOutcome(i, TRUE, NoResponse, <<>>, <<>>, "none")}
        ELSE IF ~i.value
        THEN {QueryOutcome(i, FALSE, InitFailureResponse, <<>>, <<>>, "none")}
        ELSE UNION {AfterSearch(i, out, configured, question, reply) :
                       out \in SearchOutcomes(i.st.index, i.st.chunks, question,
                                              QUERY_TOP_K)}

\* movie objects of a corpus: with every key, with the plot only, with an
\* empty plot and no title
MoviePool ==
    { [title |-> "T1", year |-> "1999", genres |-> <<"Sci-Fi", "Drama">>,
       extract |-> <<"a", " ", "b", ".", " ", "a">>],
      [title |-> "T2", extract |-> <<"b">>],
      [year |-> "2001", extract |-> <<>>] }

\* the corpus files: none, an unreadable one, arrays of at most MaxMovies
\* movies
Corpora ==
    {Missing, Malformed} \cup {CorpusOf(movies) : movies \in SeqsUpTo(MoviePool, MaxMovies)}

\* the configurations: the one of config.py, and two that cut the composed
\* contents into several chunks, one by each strategy
RagConfigs ==
    {DefaultConfig,
     [CHUNK_SIZE |-> 4, CHUNK_OVERLAP |-> 1, SMART_CHUNKING |-> TRUE],
     [CHUNK_SIZE |-> 4, CHUNK_OVERLAP |-> 1, SMART_CHUNKING |-> FALSE]}

Questions == {<<"a">>, <<"robot", " ", "b">>}

\* the faults a query or an initialize can meet: those of build_index, when
\* it may come to building
FaultsWhen(init) == IF init THEN {"none"} ELSE Faults

\* the replies a query can get: those of the model, when there is one
RepliesWhen(configured) ==
    IF configured THEN LlmReplies ELSE {[raised |-> FALSE, text |-> <<>>]}

InitRag ==
    /\ mode = "rag"
    /\ config \in RagConfigs
    /\ ChunkerIdle
    /\ StoreConstructed
    /\ diskIndex = Missing
    /\ diskMeta = Missing
    /\ corpus \in Corpora
    /\ initialized = FALSE
    /\ llm \in BOOLEAN

\* the store and the files take the values of st
StoreBecomes(st) ==
    /\ index' = st.index
    /\ chunks' = st.chunks
    /\ chunk_metadata' = st.chunk_metadata
    /\ diskIndex' = st.diskIndex
    /\ diskMeta' = st.diskMeta

RagInitialize ==
    /\ mode = "rag"
    /\ \E fault \in Faults :
          \E i \in {InitializeOutcome(StoreState, initialized, corpus, config, fault)} :
              /\ StoreBecomes(i.st)
              /\ initialized' = i.initialized
              /\ succeeded' = (succeeded \/ (~i.raised /\ i.value))
              /\ ret' = [op |-> "initialize", raised |-> i.raised, value |-> i.value,
                         calls |-> i.calls]
    /\ UNCHANGED <<mode, config, chunkVars, builder, corpus, llm>>

RagQuery ==
    /\ mode = "rag"
    /\ \E question \in Questions, fault \in FaultsWhen(initialized),
          reply \in RepliesWhen(llm) :
          \E q \in QueryOutcomes(StoreState, initialized, corpus, config, llm,
                                 question, fault, reply) :
              /\ StoreBecomes(q.st)
              /\ initialized' = q.initialized
              /\ succeeded' = (succeeded \/ q.initialized)
              /\ ret' = [op |-> "query", question |-> question, reply |-> reply,
                         raised |-> q.raised, value |-> q.value, calls |-> q.calls,
                         retrieved |-> q.retrieved, llm_call |-> q.llm_call]
    /\ UNCHANGED <<mode, config, chunkVars, builder, corpus, llm>>

\* the program is run again: MovieRAGSystem(config) constructs a fresh store,
\* with or without an API key
RagRestart ==
    /\ mode = "rag"
    /\ ret.op # "new"
    /\ index' = NoIndex
    /\ chunks' = <<>>
    /\ chunk_metadata' = <<>>
    /\ succeeded' = FALSE
    /\ initialized' = FALSE
    /\ llm' \in BOOLEAN
    /\ ret' = [op |-> "new"]
    /\ UNCHANGED <<mode, config, chunkVars, diskVars, builder, corpus>>

NextRag == RagInitialize \/ RagQuery \/ RagRestart

SpecRag == InitRag /\ [][NextRag]_vars

-----------------------------------------------------------------------------
(* Claims about the chunker *)

\* the document chunk_documents chunked last, and its words
LastDocument == documents[docPos]

LastWords == Split(LastDocument.content)

ChunkedOne == mode = "chunk" /\ docPos >= 1

PairwiseDistinctTitles ==
    \A i, j \in 1..Len(documents) :
        i # j => documents[i].metadata.title # documents[j].metadata.title

\* C2 (as claimed): with pairwise distinct titles, the k-th chunk of each
\* document carries the id "{title}_{k}", k = 0, 1, 2, ..., and no two chunks
\* of the returned list share a chunk_id.
C2_SequentialUniqueIds ==
    (ChunkedOne /\ PairwiseDistinctTitles) =>
        /\ \A k \in 1..Len(docChunks) :
               docChunks[k].chunk_id = ChunkId(LastDocument.metadata.title, k - 1)
        /\ \A i, j \in 1..Len(outChunks) :
               i # j => outChunks[i].chunk_id # outChunks[j].chunk_id

\* the fixed-size strategy ran on the last document
FixedRan ==
    ChunkedOne /\ ~config.SMART_CHUNKING /\ Len(LastWords) > config.CHUNK_SIZE

\* the word positions (1-based) of the k-th window when consecutive windows
\* share exactly CHUNK_OVERLAP positions
WindowStart(k) == (k - 1) * (config.CHUNK_SIZE - config.CHUNK_OVERLAP)

WindowPositions(k) ==
    (WindowStart(k) + 1)..(WindowStart(k) + Len(Split(docChunks[k].content)))

\* C5: under the fixed-size strategy every word position of the document is
\* in some chunk, each chunk holds the document's words at its positions, and
\* consecutive chunks share exactly CHUNK_OVERLAP positions, the earlier
\* chunk's last CHUNK_OVERLAP words being the later one's first (here for
\* every pair, the pair ending in the final chunk included).
C5_FixedCoverageAndOverlap ==
    FixedRan =>
        LET n == Len(docChunks)
            w(k) == Split(docChunks[k].content)
        IN /\ n >= 1
           /\ \A k \in 1..n :
                  /\ WindowStart(k) + Len(w(k)) <= Len(LastWords)
                  /\ w(k) = SubSeq(LastWords, WindowStart(k) + 1,
                                   WindowStart(k) + Len(w(k)))
           /\ UNION {WindowPositions(k) : k \in 1..n} = 1..Len(LastWords)
           /\ \A k \in 1..(n - 1) :
                  /\ Cardinality(WindowPositions(k) \cap WindowPositions(k + 1))
                         = config.CHUNK_OVERLAP
                  /\ Len(w(k)) >= config.CHUNK_OVERLAP
                  /\ Len(w(k + 1)) >= config.CHUNK_OVERLAP
                  /\ LastN(w(k), config.CHUNK_OVERLAP)
                         = SubSeq(w(k + 1), 1, config.CHUNK_OVERLAP)

\* C5 witness: the fixed-size strategy emitted overlapping windows
C5_Witness ==
    FixedRan /\ Len(docChunks) >= 2 /\ config.CHUNK_OVERLAP >= 1

\* the sentence-aware strategy ran on the last document
SemanticRan ==
    ChunkedOne /\ config.SMART_CHUNKING /\ Len(LastWords) > config.CHUNK_SIZE

\* chunks k.. are, in order, the last one or two sentences of the chunk
\* before (prev, none for the first chunk) followed by the next unread
\* sentences of sents (at least one), and all of sents is read at the end
RECURSIVE ReadsSentences(_, _, _, _, _)
ReadsSentences(cs, sents, k, prev, pos) ==
    IF k > Len(cs) THEN pos = Len(sents)
    ELSE \E e \in (pos + 1)..Len(sents) :
           \E carry \in (IF prev = <<>> THEN {<<>>} ELSE {LastN(prev, 1), LastN(prev, 2)}) :
              LET mine == carry \o SubSeq(sents, pos + 1, e)
              IN /\ cs[k].content = Join(mine)
                 /\ ReadsSentences(cs, sents, k + 1, mine, e)

\* C6: under the sentence-aware strategy, dropping from each chunk the
\* leading sentences carried over from the chunk before leaves the document's
\* non-empty sentences, each once and in the original order.
C6_SentencesReconstructed ==
    SemanticRan =>
        ReadsSentences(docChunks, Sentences(LastDocument.content), 1, <<>>, 0)

\* C6 witness: the sentence-aware strategy closed two chunks, the second
\* holding two sentences to carry over
C6_Witness == SemanticRan /\ Len(docChunks) >= 3

-----------------------------------------------------------------------------
(* Claims about the VectorStore *)

\* the embedding build_index stores for a chunk
EmbeddingOf(chunk) == NormalizeL2(Encode(chunk.content))

\* the index, the chunk list and the metadata list are aligned
Aligned(idx, cs, md) ==
    /\ idx # NoIndex
    /\ Len(idx.xb) = Len(cs)
    /\ Len(cs) = Len(md)
    /\ \A i \in 1..Len(cs) : idx.xb[i] = EmbeddingOf(cs[i])

\* C1 (as claimed): once a build_index or load_index of the instance has
\* succeeded, whatever calls follow (failing ones included), the index holds
\* as many vectors as there are chunks and metadata entries, and vector i is
\* that of chunks[i].
C1_IndexAlignedWithChunks ==
    (mode = "store" /\ succeeded) => Aligned(index, chunks, chunk_metadata)

SearchReturned == mode = "store" /\ ret.op = "search"

\* C3 (as claimed): on a store whose index holds at least one vector, search
\* returns a non-empty list for every query and top_k >= 1; it returns an
\* empty list only when self.index is None.
C3_SearchNonEmpty ==
    SearchReturned =>
        /\ (index # NoIndex /\ Len(index.xb) >= 1) =>
               (~ret.raised /\ ret.value # <<>>)
        /\ (~ret.raised /\ ret.value = <<>>) => index = NoIndex

\* what C3 claims, on the states where the fields are aligned
C3_HoldsWhenAligned ==
    (SearchReturned /\ Aligned(index, chunks, chunk_metadata)) =>
        (~ret.raised /\ ret.value # <<>>)

\* the candidates of the claim: the min(3 * top_k, index size) best vectors
\* of the index for the query of the last search
ClaimCandidates ==
    IndexSearch(index.xb, NormalizeL2(Encode(ret.query)),
                Min(3 * ret.top_k, Len(index.xb)))

\* how many of them meet the threshold
ClaimAbove ==
    Cardinality({j \in 1..Len(ClaimCandidates) : MeetsThreshold(ClaimCandidates[j].score)})

SomeChunkMeetsThreshold ==
    \E i \in 1..Len(index.xb) :
        MeetsThreshold(Dot(index.xb[i], NormalizeL2(Encode(ret.query))))

\* the result of the last search is what C4 describes
ThresholdedTopK ==
    /\ ~ret.raised
    /\ Len(ret.value) = Min(ret.top_k, ClaimAbove)
    /\ Len(ret.value) <= ret.top_k
    /\ \A j \in 1..Len(ret.value) :
           /\ MeetsThreshold(ret.value[j].score)
           /\ ret.value[j].score = ClaimCandidates[j].score
           /\ ClaimCandidates[j].idx + 1 \in 1..Len(chunks)
           /\ ret.value[j].chunk = chunks[ClaimCandidates[j].idx + 1]
           /\ MeetsThreshold(Dot(EmbeddingOf(ret.value[j].chunk),
                                 NormalizeL2(Encode(ret.query))))
    /\ \A j \in 1..(Len(ret.value) - 1) : ret.value[j].score >= ret.value[j + 1].score

\* C4 (as claimed): on a built index where some chunk meets the threshold,
\* search returns exactly the min(top_k, n) best of the n candidates that
\* meet it, best first, never more than top_k and none below the threshold.
C4_ThresholdedTopK ==
    (SearchReturned /\ index # NoIndex /\ SomeChunkMeetsThreshold) => ThresholdedTopK

\* what C4 claims, on the states where the fields are aligned
C4_HoldsWhenAligned ==
    (SearchReturned /\ Aligned(index, chunks, chunk_metadata) /\ SomeChunkMeetsThreshold)
        => ThresholdedTopK

\* the chunk ids and scores of a search result, in order
IdsAndScores(value) ==
    [j \in 1..Len(value) |-> <<value[j].chunk.chunk_id, value[j].score>>]

C8_LoadIndexContract ==
    [][(mode = "store" /\ ret'.op = "load_index") =>
          /\ ~ret'.raised
          /\ (diskIndex.state = "ok" /\ diskMeta.state = "ok") =>
                 /\ ret'.value = TRUE
                 /\ index' = FlatIndex(diskIndex.xb)
                 /\ chunks' = diskMeta.chunks
                 /\ chunk_metadata' = diskMeta.metadata
          /\ (diskIndex = Missing \/ diskMeta = Missing) =>
                 /\ ret'.value = FALSE
                 /\ UNCHANGED <<index, chunks, chunk_metadata>>
          /\ (diskIndex = Corrupt \/ diskMeta = Corrupt) => ret'.value = FALSE
      ]_vars

\* C8 witness: load_index returned True on an instance that held nothing
C8_Witness ==
    /\ mode = "store"
    /\ ret.op = "load_index" /\ ret.value
    /\ Len(chunks) >= 2
    /\ builder # NoStore

-----------------------------------------------------------------------------
(* MovieRAGSystem claims, checked under SpecRag *)

\* no persisted index artifacts
ColdStart == diskIndex = Missing /\ diskMeta = Missing

\* the corpus file is missing, is malformed, or holds an empty array
NoCorpus == corpus.state # "ok" \/ corpus.movies = <<>>

\* C9: with the corpus file missing, malformed or holding an empty JSON
\* array, load_and_preprocess returns an empty list without raising; on a
\* cold start initialize then returns False and leaves initialized False,
\* and query returns the initialization-failure response and does not raise
C9_NoCorpusFailsCleanly ==
    (mode = "rag" /\ ret.op \in {"initialize", "query"} /\ ColdStart /\ NoCorpus) =>
        /\ LoadAndPreprocess(corpus) = [raised |-> FALSE, value |-> <<>>]
        /\ ~ret.raised
        /\ ~initialized
        /\ ret.op = "initialize" => ret.value = FALSE
        /\ ret.op = "query" => ret.value = InitFailureResponse

\* the same with the malformed file left out: a missing file and an empty
\* array do fail cleanly
C9_HoldsWhenReadable ==
    (mode = "rag" /\ ret.op \in {"initialize", "query"} /\ ColdStart /\ NoCorpus
        /\ corpus # Malformed) =>
        /\ LoadAndPreprocess(corpus) = [raised |-> FALSE, value |-> <<>>]
        /\ ~ret.raised
        /\ ~initialized
        /\ ret.op = "initialize" => ret.value = FALSE
        /\ ret.op = "query" => ret.value = InitFailureResponse

\* a query whose search returned at least one chunk
QueryRetrieved == mode = "rag" /\ ret.op = "query" /\ ret.retrieved # <<>>

\* C10: a query on an initialized system whose search returns at least one
\* chunk does not raise, whatever the model call does; its contexts are the
\* contents of the retrieved chunks in retrieval order; its answer is the
\* model's text when a model is configured and the call returns, and a
\* fallback answer for the question and the retrieved chunks otherwise
C10_ContextsAndAnswer ==
    QueryRetrieved =>
        /\ initialized
        /\ \E out \in SearchOutcomes(index, chunks, ret.question, QUERY_TOP_K) :
              ~out.raised /\ out.value = ret.retrieved
        /\ ~ret.raised
        /\ Len(ret.value.contexts) = Len(ret.retrieved)
        /\ \A i \in 1..Len(ret.retrieved) :
              ret.value.contexts[i] = ret.retrieved[i].chunk.content
        /\ IF llm /\ ~ret.reply.raised
           THEN ret.value.answer = Answer("llm", "", <<>>, Strip(ret.reply.text))
           ELSE ret.value.answer \in FallbackAnswers(ret.question, ret.retrieved)

\* the model call of a query raised after search had returned two chunks, and
\* the query returned a fallback answer
C10_Witness ==
    /\ QueryRetrieved
    /\ Len(ret.retrieved) >= 2
    /\ llm
    /\ ret.llm_call = "raised"
    /\ ~ret.raised
    /\ ret.value.answer.by = "fallback"

\* the positions of a call in the calls a step made
Positions(calls, name) == {k \in 1..Len(calls) : calls[k] = name}

\* C11: a query on a system that is not initialized runs initialize before
\* any search; initialize calls build_index only after load_index returned
\* False and never when it returned True; and once the system is
\* initialized no query calls load_index or build_index again, so the index
\* and the chunk list stay as they are across every later query
C11_LazyInitializeOnce ==
    [][(mode = "rag" /\ ret'.op \in {"initialize", "query"}) =>
          LET calls == ret'.calls
              loaded == AfterLoad(StoreState).value
              initializes == ret'.op = "initialize" \/ ~initialized
          IN  /\ (ret'.op = "query" /\ ~initialized) =>
                    /\ calls # <<>>
                    /\ calls[1] = "load_index"
                    /\ \A k \in Positions(calls, "search") :
                          /\ k > 1
                          /\ initialized'
                          /\ \A j \in Positions(calls, "build_index") : j < k
              /\ initializes =>
                    /\ Positions(calls, "load_index") = {1}
                    /\ Positions(calls, "build_index") # {} => ~loaded
                    /\ \A j \in Positions(calls, "build_index") : j > 1
                    /\ loaded => calls[Len(calls)] # "build_index" /\ initialized'
              /\ (ret'.op = "query" /\ initialized) =>
                    /\ Positions(calls, "load_index") = {}
                    /\ Positions(calls, "build_index") = {}
                    /\ initialized'
                    /\ index' = index
                    /\ chunks' = chunks
                    /\ chunk_metadata' = chunk_metadata
                    /\ UNCHANGED diskVars]_vars

\* a query on a fresh instance found the artifacts of an earlier run, loaded
\* them and went on to search without building
C11_Witness ==
    /\ mode = "rag"
    /\ ret.op = "query"
    /\ ~ret.raised
    /\ Len(ret.calls) >= 2
    /\ ret.calls[1] = "load_index"
    /\ ret.calls[2] = "search"
    /\ initialized
    /\ ret.retrieved # <<>>

-----------------------------------------------------------------------------
(* Chunk size, checked under SpecChunk *)

\* every sentence of the last document has at most CHUNK_SIZE words
SentencesFit ==
    \A i \in 1..Len(Sentences(LastDocument.content)) :
        Len(Split(Sentences(LastDocument.content)[i])) <= config.CHUNK_SIZE

\* every chunk of the last document has at most CHUNK_SIZE words
ChunksFit ==
    \A k \in 1..Len(docChunks) : Len(Split(docChunks[k].content)) <= config.CHUNK_SIZE

\* C12: for a document whose sentences each have at most CHUNK_SIZE words,
\* every chunk of the sentence-aware strategy, those seeded with carried
\* sentences included, has at most CHUNK_SIZE words; so has every chunk of
\* the fixed-size strategy and of the single-chunk path
C12_ChunksWithinChunkSize ==
    ChunkedOne =>
        /\ (SemanticRan /\ SentencesFit) => ChunksFit
        /\ ~SemanticRan => ChunksFit

\* the same for the fixed-size strategy and the single-chunk path alone
C12_HoldsOutsideSemantic == (ChunkedOne /\ ~SemanticRan) => ChunksFit

=============================================================================
